---- MODULE Spec2Model ----
(***************************************************************************)
(* Starmap: the sync script (src/src/sync_stars.py) and the tool server    *)
(* (src/src/mcp_server.py).                                                *)
(*                                                                         *)
(* Values of the Python program are modelled as tagged JSON values         *)
(* (JNull, JStr, JInt, JList, JDict); a string is a sequence of one-letter *)
(* strings, so that lower() and the substring test `in` are computed.      *)
(* A timestamp string is a sequence of digit letters; Python compares      *)
(* strings letter by letter, and so does StrLess.                          *)
(***************************************************************************)
EXTENDS Integers, Sequences, FiniteSets, TLC

VARIABLES
    source,      \* the remote listing: page number -> the response it gives
    ipc,         \* per ingestor: "idle", "called", "fetch", "done", "failed"
    page,        \* per ingestor: the local `page`
    all_repos,   \* per ingestor: the local `all_repos`
    requested,   \* per ingestor: the page numbers of the GETs issued, in order
    lastResp,    \* per ingestor: the response to the last GET
    fetched      \* per ingestor: what fetch_starred_repos gave its caller

ingestVars == <<source, ipc, page, all_repos, requested, lastResp, fetched>>

VARIABLES
    doc,         \* the remote document at path/branch: its version token, content and writer
    strict,      \* whether the store rejects a write without token to an existing document
    commits,     \* the number of writes the store accepted
    ppc,         \* per publisher: "idle", "called", "write", "done"
    content,     \* per publisher: the argument markdown_content
    sha,         \* per publisher: the local `sha` (<<>> for None)
    got,         \* per publisher: the answer to the GET of commit_to_github
    put,         \* per publisher: the PUT it issued, with the document before and after
    readAt,      \* per publisher: `commits` when its GET was answered
    gets,        \* per publisher: the number of GETs of the current call
    puts,        \* per publisher: the number of PUTs of the current call
    published,   \* per publisher: what commit_to_github gave its caller
    pcalls       \* per publisher: the number of calls of commit_to_github

publishVars == <<doc, strict, commits, ppc, content, sha, got, put, readAt, gets, puts,
                 published, pcalls>>

VARIABLES
    mi,              \* sync_repos: the position of the loop `for repo in repos`
    success_count,   \* sync_repos: the local `success_count`
    submitted,       \* the payloads POSTed to the index sink, in order
    stored,          \* the number of POSTs the sink accepted
    mirrored         \* what sync_repos gave its caller

mirrorVars == <<mi, success_count, submitted, stored, mirrored>>

VARIABLES
    config,            \* the environment: which of the settings are present
    mpc,               \* main of the sync script: its position
    repos,             \* main: the local `repos`
    markdown_content,  \* main: the local `markdown_content`
    localFile,         \* the file starred-repos.md (<<>>: not written)
    out,               \* the messages main printed
    mainResult         \* how main ended

mainVars == <<config, mpc, repos, markdown_content, localFile, out, mainResult>>

VARIABLES
    tpc,        \* the tool server: "idle", "fetching" (in call_tool), "responded"
    name,       \* call_tool: the argument `name`
    arguments,  \* call_tool: the argument `arguments`
    tresult,    \* what call_tool gave its caller
    tcalls,     \* the number of tool calls of the session
    escaped     \* the number of tool calls whose exception left call_tool

toolVars == <<tpc, name, arguments, tresult, tcalls, escaped>>

vars == <<ingestVars, publishVars, mirrorVars, mainVars, toolVars>>

----------------------------------------------------------------------------
(* Bounds of the model *)

\* The ingestors request no page beyond this one.
MaxPages == 2

\* A sync run's listing ends with a page of at most this many entries.
MaxRecords == 3

\* A session of the tool server has at most this many tool calls.
MaxCalls == 2

\* The listings of the runs that sort by recency have at most this many
\* records.
MaxListing == 7

\* Each publisher calls commit_to_github at most this many times.
MaxPublishes == 2

(* Program constants *)

\* per_page = 100 (sync_stars.py:29), the literal 100 of mcp_server.py:131,152
PerPage == 100

----------------------------------------------------------------------------
(* Python / JSON values *)

JNull == [ty |-> "null"]

JStr(s) == [ty |-> "str", s |-> s]

JInt(n) == [ty |-> "int", n |-> n]

JList(items) == [ty |-> "list", items |-> items]

JDict(d) == [ty |-> "dict", d |-> d]

\* The truth value of a Python value: None, "", [], {} and 0 are false.
Truthy(v) ==
    CASE v.ty = "null" -> FALSE
      [] v.ty = "str" -> v.s # <<>>
      [] v.ty = "int" -> v.n # 0
      [] v.ty = "list" -> v.items # <<>>
      [] OTHER -> DOMAIN v.d # {}

\* The letters, in the order of their code points.
Letters ==
    <<"0", "1", "2", "3", "4", "5", "6", "7", "8", "9",
      "A", "B", "C", "D", "E", "F", "G", "H", "I", "J", "K", "L", "M",
      "N", "O", "P", "Q", "R", "S", "T", "U", "V", "W", "X", "Y", "Z",
      "a", "b", "c", "d", "e", "f", "g", "h", "i", "j", "k", "l", "m",
      "n", "o", "p", "q", "r", "s", "t", "u", "v", "w", "x", "y", "z">>

Ord == [ch \in {Letters[i] : i \in 1..Len(Letters)} |->
            CHOOSE i \in 1..Len(Letters) : Letters[i] = ch]

\* a < b for Python strings: by the first letter that differs, a proper
\* prefix being smaller.
RECURSIVE StrLess(_, _)
StrLess(a, b) ==
    IF b = <<>> THEN FALSE
    ELSE IF a = <<>> THEN TRUE
    ELSE IF Ord[Head(a)] # Ord[Head(b)] THEN Ord[Head(a)] < Ord[Head(b)]
    ELSE StrLess(Tail(a), Tail(b))

\* dict.get(key, default): the default only when the key is absent
DictGet(dict, key, default) ==
    IF key \in DOMAIN dict.d THEN dict.d[key] ELSE default

\* `key in dict`
DictHas(dict, key) == key \in DOMAIN dict.d

----------------------------------------------------------------------------
(* The remote listing source *)

Ingestors == {"sync", "mcp"}

\* No response yet.
NoResp == [status |-> "none", size |-> 0, nulls |-> FALSE]

\* A response: its status, the number of entries of its page, and whether
\* the page has entries whose language is null.
FullPage == [status |-> "200", size |-> PerPage, nulls |-> FALSE]

EmptyPage == [status |-> "200", size |-> 0, nulls |-> FALSE]

\* A success response whose page is not full (short, or empty).
ShortResponses == {[status |-> "200", size |-> n, nulls |-> FALSE] : n \in 0..(PerPage - 1)}

\* A non-success response.
ErrResponses == {[status |-> s, size |-> 0, nulls |-> FALSE] : s \in {"404", "500"}}

\* An ingestion reads the source up to its first response that is not a
\* full page, so a source is k full pages and the response that follows.
SourceOf(k, fin) ==
    [p \in 1..(MaxPages + 1) |->
        IF p <= k THEN FullPage ELSE IF p = k + 1 THEN fin ELSE EmptyPage]

\* The sources of the model; the last one has more full pages than the model
\* follows.
Sources(finals) ==
    {SourceOf(k, fin) : k \in 0..(MaxPages - 1), fin \in finals}
        \cup {SourceOf(MaxPages + 1, EmptyPage)}

\* The decimal digits of n, as letters.
RECURSIVE Digits(_)
Digits(n) ==
    LET d == <<"0", "1", "2", "3", "4", "5", "6", "7", "8", "9">>[(n % 10) + 1]
    IN IF n < 10 THEN <<d>> ELSE Append(Digits(n \div 10), d)

\* The identifier of the i-th entry of page p of the listing.
EntryId(p, i) == (p - 1) * PerPage + i

\* The repository object of entry id. Which keys it carries depends on id:
\* one in seven has only the name, the url and the star count; one in
\* seven has a null description, one in seven no topics. On a page with
\* nulls, every third has a null language.
RepoObject(id, nulls) ==
    LET base == [k \in {"full_name", "html_url", "stargazers_count"} |->
                    CASE k = "full_name" -> JStr(<<"r">> \o Digits(id))
                      [] k = "html_url" -> JStr(<<"u">> \o Digits(id))
                      [] OTHER -> JInt(id % 2)]
        full == [k \in DOMAIN base \cup {"description", "language", "topics"} |->
                    CASE k = "description" ->
                            IF id % 7 = 4 THEN JNull ELSE JStr(<<"d">>)
                      [] k = "language" ->
                            IF nulls /\ id % 3 = 0 THEN JNull
                            ELSE JStr(IF id % 2 = 0 THEN <<"G", "o">> ELSE <<"C">>)
                      [] k = "topics" ->
                            IF id % 7 = 5 THEN JList(<<>>)
                            ELSE JList(<<JStr(<<"a", "p", "i">>)>>)
                      [] OTHER -> base[k]]
    IN JDict(IF id % 7 = 2 THEN base ELSE full)

\* The raw entry: the bare repository object (two in seven), or a wrapper
\* {repo, starred_at}.
RawEntry(id, nulls) ==
    IF id % 7 \in {1, 6}
    THEN RepoObject(id, nulls)
    ELSE JDict([k \in {"repo", "starred_at"} |->
                    IF k = "repo" THEN RepoObject(id, nulls)
                    ELSE JStr(<<"2", "0">> \o Digits(10 + ((id * 3) % 5)))])

\* The JSON body of a response: the entries of page p.
PageEntries(p, resp) == [i \in 1..resp.size |-> RawEntry(EntryId(p, i), resp.nulls)]

----------------------------------------------------------------------------
(* requests: Response.raise_for_status *)

\* Mutant: the status is never checked.
RaiseForStatusNever(status) == FALSE

\* raise_for_status raises HTTPError for a 4xx or 5xx status.
RaiseForStatus(status) == status \in {"404", "409", "422", "500"}

\* What a call gives its caller.
NoResult == [kind |-> "none"]

Returned(value) == [kind |-> "returned", value |-> value]

Raised(error, status) == [kind |-> "raised", error |-> error, status |-> status]

----------------------------------------------------------------------------
(* Record Normalizer *)

\* sync_stars.py:46-59
SyncNormalize(item) ==
    LET repo == IF item.ty # "dict" \/ ~DictHas(item, "repo") THEN item ELSE item.d["repo"]
        starred_at == IF item.ty = "dict" /\ DictHas(item, "starred_at")
                      THEN DictGet(item, "starred_at", JStr(<<>>))
                      ELSE JStr(<<>>)
    IN [name |-> DictGet(repo, "full_name", JStr(<<>>)),
        description |-> DictGet(repo, "description", JStr(<<>>)),
        url |-> DictGet(repo, "html_url", JStr(<<>>)),
        language |-> DictGet(repo, "language", JStr(<<"U", "n", "k", "n", "o", "w", "n">>)),
        topics |-> DictGet(repo, "topics", JList(<<>>)),
        stars |-> DictGet(repo, "stargazers_count", JInt(0)),
        last_updated |-> DictGet(repo, "updated_at", JStr(<<>>)),
        starred_at |-> starred_at,
        homepage |-> DictGet(repo, "homepage", JStr(<<>>))]

\* Mutant: the wrapper is taken for the repository object.
McpNormalizeBare(item) ==
    [name |-> DictGet(item, "full_name", JStr(<<>>)),
     description |-> DictGet(item, "description", JStr(<<>>)),
     url |-> DictGet(item, "html_url", JStr(<<>>)),
     language |-> DictGet(item, "language", JStr(<<"U", "n", "k", "n", "o", "w", "n">>)),
     topics |-> DictGet(item, "topics", JList(<<>>)),
     stars |-> DictGet(item, "stargazers_count", JInt(0)),
     starred_at |-> DictGet(item, "starred_at", JStr(<<>>))]

\* mcp_server.py:139-150
McpNormalize(item) ==
    LET repo == IF ~DictHas(item, "repo") THEN item ELSE item.d["repo"]
        starred_at == IF DictHas(item, "starred_at")
                      THEN DictGet(item, "starred_at", JStr(<<>>))
                      ELSE JStr(<<>>)
    IN [name |-> DictGet(repo, "full_name", JStr(<<>>)),
        description |-> DictGet(repo, "description", JStr(<<>>)),
        url |-> DictGet(repo, "html_url", JStr(<<>>)),
        language |-> DictGet(repo, "language", JStr(<<"U", "n", "k", "n", "o", "w", "n">>)),
        topics |-> DictGet(repo, "topics", JList(<<>>)),
        stars |-> DictGet(repo, "stargazers_count", JInt(0)),
        starred_at |-> starred_at]

----------------------------------------------------------------------------
(* Paginated Ingestor *)

\* Entry of fetch_starred_repos: all_repos = [], page = 1
FetchEnter(c) ==
    /\ ipc[c] = "called"
    /\ ipc' = [ipc EXCEPT ![c] = "fetch"]
    /\ page' = [page EXCEPT ![c] = 1]
    /\ all_repos' = [all_repos EXCEPT ![c] = <<>>]
    /\ requested' = [requested EXCEPT ![c] = <<>>]
    /\ lastResp' = [lastResp EXCEPT ![c] = NoResp]
    /\ fetched' = [fetched EXCEPT ![c] = NoResult]
    /\ UNCHANGED source

\* requests.get(url, headers, params={"page": page, "per_page": 100}): the
\* request is logged and the source answers it.
IssueGet(c) ==
    /\ ipc[c] = "fetch"
    /\ page[c] <= MaxPages
    /\ requested' = [requested EXCEPT ![c] = Append(@, page[c])]
    /\ lastResp' = [lastResp EXCEPT ![c] = source[page[c]]]
    /\ UNCHANGED source

\* `if not repos: break`
NoRepos(body) == Len(body) = 0

\* Mutant: a full page ends the loop too.
IsLastPageOffByOne(body) == Len(body) <= PerPage

\* Mutant: no page is taken for the last one.
IsLastPageNever(body) == FALSE

\* `if len(repos) < per_page: break`
IsLastPage(body) == Len(body) < PerPage

\* Mutant: the page number is not advanced.
NextPageStuck(p) == p

\* `page += 1`
NextPage(p) == p + 1

\* One iteration of the loop of GitHubClient.fetch_starred_repos.
SyncFetchPage ==
    LET c == "sync"
        r == source[page[c]]
        \* repos = response.json()
        body == PageEntries(page[c], r)
    IN /\ IssueGet(c)
       /\ IF RaiseForStatus(r.status)
          THEN /\ ipc' = [ipc EXCEPT ![c] = "failed"]
               /\ fetched' = [fetched EXCEPT ![c] = Raised("HTTPError", r.status)]
               /\ UNCHANGED <<page, all_repos>>
          ELSE IF NoRepos(body)
          THEN /\ ipc' = [ipc EXCEPT ![c] = "done"]
               /\ fetched' = [fetched EXCEPT ![c] = Returned(all_repos[c])]
               /\ UNCHANGED <<page, all_repos>>
          ELSE LET all == all_repos[c] \o [i \in 1..Len(body) |-> SyncNormalize(body[i])]
               IN /\ all_repos' = [all_repos EXCEPT ![c] = all]
                  /\ page' = [page EXCEPT ![c] = NextPage(@)]
                  /\ IF IsLastPage(body)
                     THEN /\ ipc' = [ipc EXCEPT ![c] = "done"]
                          /\ fetched' = [fetched EXCEPT ![c] = Returned(all)]
                     ELSE UNCHANGED <<ipc, fetched>>

\* One iteration of the loop of fetch_starred_repos of the tool server.
McpFetchPage ==
    LET c == "mcp"
        r == source[page[c]]
        \* repos = response.json()
        body == PageEntries(page[c], r)
    IN /\ IssueGet(c)
       /\ IF RaiseForStatus(r.status)
          THEN /\ ipc' = [ipc EXCEPT ![c] = "failed"]
               /\ fetched' = [fetched EXCEPT ![c] = Raised("HTTPError", r.status)]
               /\ UNCHANGED <<page, all_repos>>
          ELSE IF NoRepos(body)
          THEN /\ ipc' = [ipc EXCEPT ![c] = "done"]
               /\ fetched' = [fetched EXCEPT ![c] = Returned(all_repos[c])]
               /\ UNCHANGED <<page, all_repos>>
          ELSE LET all == all_repos[c] \o [i \in 1..Len(body) |-> McpNormalize(body[i])]
               IN /\ all_repos' = [all_repos EXCEPT ![c] = all]
                  /\ IF IsLastPage(body)
                     THEN /\ ipc' = [ipc EXCEPT ![c] = "done"]
                          /\ fetched' = [fetched EXCEPT ![c] = Returned(all)]
                          /\ UNCHANGED page
                     ELSE /\ page' = [page EXCEPT ![c] = NextPage(@)]
                          /\ UNCHANGED <<ipc, fetched>>

----------------------------------------------------------------------------
(* Document Renderer: generate_markdown *)

\* Line 134, the key of the sort: x.get('starred_at', '')
StarredAtKey(r) == r.starred_at

\* Comparing the keys of two records raises TypeError unless both are strings.
KeysComparable(rs) == \A i \in 1..Len(rs) : StarredAtKey(rs[i]).ty = "str"

\* Mutant: the comparison turned round.
KeyLessReversed(a, b) == IF a.ty = "int" THEN b.n < a.n ELSE StrLess(b.s, a.s)

\* a < b for two keys of one type: integers or strings.
KeyLess(a, b) == IF a.ty = "int" THEN a.n < b.n ELSE StrLess(a.s, b.s)

\* Mutant: records of equal key come out in the reverse of their order.
SortedDescendingUnstable(rs, keys) ==
    LET rank == [i \in 1..Len(rs) |->
                    Cardinality({j \in 1..Len(rs) :
                        \/ KeyLess(keys[i], keys[j])
                        \/ j > i /\ ~KeyLess(keys[j], keys[i])}) + 1]
    IN [n \in 1..Len(rs) |-> rs[CHOOSE i \in 1..Len(rs) : rank[i] = n]]

\* sorted(rs, key, reverse=True) and rs.sort(key, reverse=True), keys[i]
\* being the key of rs[i]. The sort is stable, and with reverse=True records
\* of equal key keep their order: a record comes after the records of
\* greater key and after the earlier records of equal key.
SortedDescending(rs, keys) ==
    LET rank == [i \in 1..Len(rs) |->
                    Cardinality({j \in 1..Len(rs) :
                        \/ KeyLess(keys[i], keys[j])
                        \/ j < i /\ ~KeyLess(keys[j], keys[i])}) + 1]
    IN [n \in 1..Len(rs) |-> rs[CHOOSE i \in 1..Len(rs) : rank[i] = n]]

\* Line 134: repos.sort(key=lambda x: x.get('starred_at', ''), reverse=True)
SortByStarredAt(rs) ==
    SortedDescending(rs, [i \in 1..Len(rs) |-> StarredAtKey(rs[i])])

Unknown == <<"U", "n", "k", "n", "o", "w", "n">>

\* Lines 146-165: the section of one record. The badge is left out for the
\* language "Unknown"; at most five topics are shown.
Section(r) ==
    [name |-> r.name,
     url |-> r.url,
     description |-> IF Truthy(r.description) THEN r.description
                     ELSE JStr(<<"_", "N", "o", "n", "e", "_">>),
     badge |-> IF r.language # JStr(Unknown) THEN r.language ELSE JNull,
     stars |-> r.stars,
     topics |-> IF Truthy(r.topics)
                THEN SubSeq(r.topics.items, 1, IF Len(r.topics.items) < 5
                                               THEN Len(r.topics.items) ELSE 5)
                ELSE <<>>]

\* Line 152: repo['language'].replace(...) raises AttributeError when the
\* language is not a string (and is not "Unknown").
SectionRaises(r) == r.language # JStr(Unknown) /\ r.language.ty # "str"

\* generate_markdown raises: in the sort, or in the section of a record.
RenderRaises(rs) ==
    \/ Len(rs) > 1 /\ ~KeysComparable(rs)
    \/ \E i \in 1..Len(rs) : SectionRaises(rs[i])

\* Lines 136-167: the header with the number of records (its time of
\* generation is left out), and one section per record, in the sorted order.
Render(sorted) ==
    [total |-> Len(sorted), sections |-> [i \in 1..Len(sorted) |-> Section(sorted[i])]]

----------------------------------------------------------------------------
(* Index Mirror: SupermemoryClient.sync_repos, add_memory *)

\* Line 112: ', '.join(repo['topics']) raises TypeError on an item that is
\* no string.
FormatRaises(r) ==
    /\ Truthy(r.topics)
    /\ r.topics.ty = "list"
    /\ \E i \in 1..Len(r.topics.items) : r.topics.items[i].ty # "str"

\* Lines 109-122: the payload of one record.
Payload(r) ==
    [content |-> [name |-> r.name,
                  description |-> IF Truthy(r.description) THEN r.description
                                  ELSE JStr(<<"N", "o">>),
                  language |-> r.language,
                  topics |-> IF Truthy(r.topics) THEN r.topics ELSE JStr(<<"N", "o", "n", "e">>),
                  stars |-> r.stars,
                  url |-> r.url],
     metadata |-> [type |-> "github_star", repo_name |-> r.name, language |-> r.language,
                   stars |-> r.stars, url |-> r.url]]

\* Mutant: the count grows whatever add_memory returned.
CountAfterAlways(count, ok) == count + 1

\* Lines 124-125: `if self.add_memory(content, metadata): success_count += 1`
CountAfter(count, ok) == IF ok THEN count + 1 ELSE count

\* The outcomes of the POST to the sink: accepted, refused with an error
\* status, or no answer at all (requests.post raises).
SinkOutcomes == {"201", "500", "exception"}

\* Lines 81-97: add_memory POSTs the payload; an error status (through
\* raise_for_status) and an exception of the POST are caught and give False.
AddMemory(outcome) == outcome # "exception" /\ ~RaiseForStatus(outcome)

\* sync_repos has not been called.
NotCalled == [kind |-> "none"]

Running == [kind |-> "running"]

\* Lines 101-106: entry of sync_repos.
MirrorEnter(api_key) ==
    /\ submitted' = <<>>
    /\ stored' = 0
    /\ IF ~api_key
       THEN /\ mirrored' = Returned(0)
            /\ UNCHANGED <<mi, success_count>>
       ELSE /\ mirrored' = Running
            /\ mi' = 1
            /\ success_count' = 0

\* Lines 108-125: one iteration of the loop over the records rs, with the
\* outcome of the POST.
MirrorSubmit(rs, outcome) ==
    /\ mirrored = Running
    /\ mi <= Len(rs)
    /\ IF FormatRaises(rs[mi])
       THEN /\ mirrored' = Raised("TypeError", "none")
            /\ UNCHANGED <<mi, success_count, submitted, stored>>
       ELSE /\ submitted' = Append(submitted, Payload(rs[mi]))
            /\ stored' = IF outcome = "201" THEN stored + 1 ELSE stored
            /\ success_count' = CountAfter(success_count, AddMemory(outcome))
            /\ mi' = mi + 1
            /\ UNCHANGED mirrored

\* Lines 127-128: the loop is over.
MirrorReturn(rs) ==
    /\ mirrored = Running
    /\ mi > Len(rs)
    /\ mirrored' = Returned(success_count)
    /\ UNCHANGED <<mi, success_count, submitted, stored>>

----------------------------------------------------------------------------
(* The remote document store (spec 6: GET gives the token or not-found;   *)
(* PUT with an optional token creates or updates, or signals a mismatch)  *)

Publishers == {"p1", "p2"}

\* No document at the path.
NoDoc == [sha |-> <<>>, content |-> <<>>, by |-> "nobody"]

\* A document left by an earlier run.
OldDoc == [sha |-> <<0>>, content |-> <<>>, by |-> "earlier"]

\* The store's answer to GET: 200 with the token, or 404.
StoreGet(d) ==
    IF d.sha # <<>>
    THEN [status |-> "200", sha |-> d.sha]
    ELSE [status |-> "404", sha |-> <<>>]

\* The answers a GET can have: the store's, an error status of the store,
\* or no answer at all (requests.get raises).
GetAnswers(d) ==
    {StoreGet(d), [status |-> "500", sha |-> <<>>], [status |-> "exception", sha |-> <<>>]}

\* The store's answer to PUT and the document afterwards. A write with the
\* current token updates, one with another token is a conflict; a write
\* without token creates, and on an existing document it is rejected by a
\* store that requires the token and accepted by one that does not.
StorePut(d, tok, text, by, enforce, n) ==
    LET written == [sha |-> <<n + 1>>, content |-> text, by |-> by]
    IN IF d.sha = <<>>
       THEN IF tok = <<>>
            THEN [status |-> "201", doc |-> written]
            ELSE [status |-> "422", doc |-> d]
       ELSE IF tok = d.sha
            THEN [status |-> "200", doc |-> written]
            ELSE IF tok # <<>>
            THEN [status |-> "409", doc |-> d]
            ELSE IF enforce
            THEN [status |-> "422", doc |-> d]
            ELSE [status |-> "200", doc |-> written]

\* The answers a PUT can have: the store's, an error status of the store,
\* or no answer at all (requests.put raises); the last two write nothing.
PutAnswers(d, tok, text, by, enforce, n) ==
    {StorePut(d, tok, text, by, enforce, n),
     [status |-> "500", doc |-> d],
     [status |-> "exception", doc |-> d]}

NoPut == [sent |-> FALSE, sha |-> <<>>, status |-> "none", at |-> 0,
          before |-> NoDoc, after |-> NoDoc]

NoGet == [status |-> "none", sha |-> <<>>]

----------------------------------------------------------------------------
(* Idempotent Publisher: commit_to_github *)

\* Entry of commit_to_github.
PublishEnter(p) ==
    /\ sha' = [sha EXCEPT ![p] = <<>>]
    /\ got' = [got EXCEPT ![p] = NoGet]
    /\ put' = [put EXCEPT ![p] = NoPut]
    /\ gets' = [gets EXCEPT ![p] = 0]
    /\ puts' = [puts EXCEPT ![p] = 0]
    /\ published' = [published EXCEPT ![p] = NoResult]
    /\ pcalls' = [pcalls EXCEPT ![p] = @ + 1]
    /\ ppc' = [ppc EXCEPT ![p] = "called"]

\* Lines 183-190: the token of a 200 answer; None for any other status and
\* for any exception.
ShaOf(answer) == IF answer.status = "200" THEN answer.sha ELSE <<>>

\* Lines 199-200: `if sha: payload["sha"] = sha`
PayloadSha(s) == IF s # <<>> THEN s ELSE <<>>

\* Lines 183-190: the GET of the current token.
PublishRead(p) ==
    /\ ppc[p] = "called"
    /\ \E answer \in GetAnswers(doc) :
        /\ got' = [got EXCEPT ![p] = answer]
        /\ sha' = [sha EXCEPT ![p] = ShaOf(answer)]
    /\ gets' = [gets EXCEPT ![p] = @ + 1]
    /\ readAt' = [readAt EXCEPT ![p] = commits]
    /\ ppc' = [ppc EXCEPT ![p] = "write"]
    /\ UNCHANGED <<doc, strict, commits, content, put, puts, published, pcalls>>

\* Mutant: a conflict sends the call back to its read.
AfterWriteRetry(status) == IF status = "409" THEN "called" ELSE "done"

\* Lines 206-209: after the PUT the call is over, whatever the answer:
\* raise_for_status raises or the success line is printed; there is no loop.
AfterWrite(status) == "done"

\* Lines 192-209: the PUT, and raise_for_status on its answer.
PublishWrite(p) ==
    /\ ppc[p] = "write"
    /\ \E answer \in PutAnswers(doc, PayloadSha(sha[p]), content[p], p, strict, commits) :
        /\ doc' = answer.doc
        /\ commits' = IF answer.doc # doc THEN commits + 1 ELSE commits
        /\ put' = [put EXCEPT ![p] = [sent |-> TRUE, sha |-> PayloadSha(sha[p]),
                                      status |-> answer.status, at |-> commits,
                                      before |-> doc, after |-> answer.doc]]
        /\ published' = [published EXCEPT ![p] =
                IF answer.status = "exception" THEN Raised("ConnectionError", "none")
                ELSE IF RaiseForStatus(answer.status) THEN Raised("HTTPError", answer.status)
                ELSE Returned(<<>>)]
        /\ ppc' = [ppc EXCEPT ![p] = AfterWrite(answer.status)]
    /\ puts' = [puts EXCEPT ![p] = @ + 1]
    /\ UNCHANGED <<strict, content, sha, got, readAt, gets, pcalls>>

----------------------------------------------------------------------------
(* main of the sync script *)

\* Which settings the environment holds: GITHUB_USERNAME, GITHUB_TOKEN,
\* SUPERMEMORY_API_KEY.
Configs == [username : BOOLEAN, token : BOOLEAN, api_key : BOOLEAN]

\* No file, no text.
Nothing == <<>>

Crash(error) ==
    /\ mpc' = "crashed"
    /\ mainResult' = error

\* Lines 213-236: the settings are read and checked.
MainStart ==
    /\ mpc = "start"
    /\ IF ~config.username \/ ~config.token
       THEN /\ Crash(Raised("ValueError", "none"))
            /\ UNCHANGED ipc
       ELSE /\ mpc' = "fetch"
            /\ ipc' = [ipc EXCEPT !["sync"] = "called"]
            /\ UNCHANGED mainResult
    /\ UNCHANGED <<source, page, all_repos, requested, lastResp, fetched>>
    /\ UNCHANGED <<config, repos, markdown_content, localFile, out>>
    /\ UNCHANGED <<publishVars, mirrorVars, toolVars>>

\* Mutant: the run goes on with an empty record set.
NothingStarredNever(rs) == FALSE

\* Line 241: `if not repos`
NothingStarred(rs) == Len(rs) = 0

\* Lines 239-243: the ingestion is over; its exception ends main, and so
\* does an empty record set.
MainFetched ==
    /\ mpc = "fetch"
    /\ ipc["sync"] \in {"done", "failed"}
    /\ IF fetched["sync"].kind = "raised"
       THEN /\ Crash(fetched["sync"])
            /\ UNCHANGED <<repos, out>>
       ELSE /\ repos' = fetched["sync"].value
            /\ IF NothingStarred(fetched["sync"].value)
               THEN /\ out' = Append(out, "no-stars")
                    /\ mpc' = "returned"
                    /\ mainResult' = Returned(<<>>)
               ELSE /\ mpc' = "render"
                    /\ UNCHANGED <<out, mainResult>>
    /\ UNCHANGED <<config, markdown_content, localFile>>
    /\ UNCHANGED <<ingestVars, publishVars, mirrorVars, toolVars>>

\* Line 246: generate_markdown sorts the caller's list and renders it.
MainRender ==
    /\ mpc = "render"
    /\ IF RenderRaises(repos)
       THEN /\ Crash(Raised("AttributeError", "none"))
            /\ UNCHANGED <<repos, markdown_content>>
       ELSE /\ repos' = SortByStarredAt(repos)
            /\ markdown_content' = <<Render(repos')>>
            /\ mpc' = "save"
            /\ UNCHANGED mainResult
    /\ UNCHANGED <<config, localFile, out>>
    /\ UNCHANGED <<ingestVars, publishVars, mirrorVars, toolVars>>

\* Lines 249-251: the document is written to starred-repos.md.
MainSave ==
    /\ mpc = "save"
    /\ localFile' = markdown_content
    /\ out' = Append(out, "saved")
    /\ mpc' = "mirror"
    /\ UNCHANGED <<config, repos, markdown_content, mainResult>>
    /\ UNCHANGED <<ingestVars, publishVars, mirrorVars, toolVars>>

\* Lines 254-256: with a sink key, a SupermemoryClient is made with it and
\* sync_repos(repos) is called.
MainMirror ==
    /\ mpc = "mirror"
    /\ IF config.api_key
       THEN /\ MirrorEnter(config.api_key)
            /\ mpc' = "mirroring"
       ELSE /\ mpc' = "publish"
            /\ UNCHANGED mirrorVars
    /\ UNCHANGED <<config, repos, markdown_content, localFile, out, mainResult>>
    /\ UNCHANGED <<ingestVars, publishVars, toolVars>>

\* sync_repos, one record.
MainMirrorSubmit ==
    /\ mpc = "mirroring"
    /\ \E outcome \in SinkOutcomes : MirrorSubmit(repos, outcome)
    /\ IF mirrored'.kind = "raised"
       THEN Crash(mirrored')
       ELSE UNCHANGED <<mpc, mainResult>>
    /\ UNCHANGED <<config, repos, markdown_content, localFile, out>>
    /\ UNCHANGED <<ingestVars, publishVars, toolVars>>

\* sync_repos returns.
MainMirrored ==
    /\ mpc = "mirroring"
    /\ MirrorReturn(repos)
    /\ mpc' = "publish"
    /\ UNCHANGED <<config, repos, markdown_content, localFile, out, mainResult>>
    /\ UNCHANGED <<ingestVars, publishVars, toolVars>>

\* Lines 259-260: commit_to_github is called with the rendered document.
MainPublish ==
    /\ mpc = "publish"
    /\ content' = [content EXCEPT !["p1"] = markdown_content]
    /\ PublishEnter("p1")
    /\ mpc' = "publishing"
    /\ UNCHANGED <<doc, strict, commits, readAt>>
    /\ UNCHANGED <<config, repos, markdown_content, localFile, out, mainResult>>
    /\ UNCHANGED <<ingestVars, mirrorVars, toolVars>>

\* Mutant: the exception of commit_to_github is not caught.
AfterPublishUncaught(result) ==
    IF result.kind = "raised"
    THEN [pc |-> "crashed", printed |-> <<>>, result |-> result]
    ELSE [pc |-> "complete", printed |-> <<"complete">>, result |-> Returned(<<>>)]

\* Mutant: after a failed publish the run starts again.
AfterPublishRestart(result) ==
    IF result.kind = "raised"
    THEN [pc |-> "start", printed |-> <<"commit-failed">>, result |-> NoResult]
    ELSE [pc |-> "complete", printed |-> <<"complete">>, result |-> Returned(<<>>)]

\* Lines 259-265: `except Exception` prints the failure; then the closing
\* messages are printed and main returns.
AfterPublish(result) ==
    IF result.kind = "raised"
    THEN [pc |-> "complete", printed |-> <<"commit-failed", "complete">>,
          result |-> Returned(<<>>)]
    ELSE [pc |-> "complete", printed |-> <<"complete">>, result |-> Returned(<<>>)]

\* Lines 261-265: commit_to_github is over.
MainFinish ==
    /\ mpc = "publishing"
    /\ ppc["p1"] = "done"
    /\ mpc' = AfterPublish(published["p1"]).pc
    /\ out' = out \o AfterPublish(published["p1"]).printed
    /\ mainResult' = AfterPublish(published["p1"]).result
    /\ UNCHANGED <<config, repos, markdown_content, localFile>>
    /\ UNCHANGED <<ingestVars, publishVars, mirrorVars, toolVars>>

InitMirrorVars ==
    /\ mi = 1
    /\ success_count = 0
    /\ submitted = <<>>
    /\ stored = 0
    /\ mirrored = NotCalled

InitMainVars(configs, at) ==
    /\ config \in configs
    /\ mpc = at
    /\ repos = <<>>
    /\ markdown_content = Nothing
    /\ localFile = Nothing
    /\ out = <<>>
    /\ mainResult = NoResult

NoConfig == [username |-> FALSE, token |-> FALSE, api_key |-> FALSE]

----------------------------------------------------------------------------
(* Query Engine and tool protocol: call_tool of the tool server *)

\* list_tools, lines 27-116
ToolNames ==
    {"search_stars", "get_stars_by_language", "get_stars_by_topic",
     "get_top_stars", "get_recent_stars"}

LowerOf ==
    [ch \in {Letters[i] : i \in 1..Len(Letters)} |->
        IF Ord[ch] \in 11..36 THEN Letters[Ord[ch] + 26] ELSE ch]

\* str.lower()
Lower(str) == [i \in 1..Len(str) |-> LowerOf[str[i]]]

\* `q in str` for strings
Contains(q, str) ==
    \E i \in 0..(Len(str) - Len(q)) : SubSeq(str, i + 1, i + Len(q)) = q

\* Mutant: the whole list, whatever the limit.
SliceAll(seq, limit) == seq

\* seq[:limit]: a negative limit counts from the end.
Slice(seq, limit) ==
    LET n == IF limit >= 0 THEN limit ELSE Len(seq) + limit
    IN SubSeq(seq, 1, IF n > Len(seq) THEN Len(seq) ELSE IF n < 0 THEN 0 ELSE n)

\* arguments.get("limit", 10)
DefaultLimit == 10

LimitOf(args) == DictGet(args, "limit", JInt(DefaultLimit)).n

\* arguments.get(key, "")
TextOfArg(args, key) == DictGet(args, key, JStr(<<>>)).s

\* any(q in t.lower() for t in topics): "match", "skip", or "raise" when the
\* topics are no list or an item met before a match is no string.
RECURSIVE AnyTopic(_, _, _)
AnyTopic(q, topics, i) ==
    IF topics.ty # "list" THEN "raise"
    ELSE IF i > Len(topics.items) THEN "skip"
    ELSE IF topics.items[i].ty # "str" THEN "raise"
    ELSE IF Contains(q, Lower(topics.items[i].s)) THEN "match"
    ELSE AnyTopic(q, topics, i + 1)

\* Lines 171-174, the condition of search_stars on one record: the four
\* tests are made in this order, up to the first that holds.
SearchTest(r, q) ==
    IF r.name.ty # "str" THEN "raise"
    ELSE IF Contains(q, Lower(r.name.s)) THEN "match"
    ELSE IF Truthy(r.description) /\ r.description.ty # "str" THEN "raise"
    ELSE IF Contains(q, IF Truthy(r.description) THEN Lower(r.description.s) ELSE <<>>)
    THEN "match"
    ELSE IF r.language.ty # "str" THEN "raise"
    ELSE IF Contains(q, Lower(r.language.s)) THEN "match"
    ELSE AnyTopic(q, r.topics, 1)

\* Line 186, the condition of get_stars_by_language on one record.
LanguageTest(r, language) ==
    IF r.language.ty # "str" THEN "raise"
    ELSE IF Lower(r.language.s) = Lower(language) THEN "match"
    ELSE "skip"

\* Line 198, the condition of get_stars_by_topic on one record.
TopicTest(r, topic) == AnyTopic(topic, r.topics, 1)

\* The one TextContent of a result: the JSON text of records, or plain text.
JsonText(records) == [type |-> "text", fmt |-> "json", value |-> records]

PlainText(str) == [type |-> "text", fmt |-> "plain", str |-> str]

\* [r for r in repos if test][:limit], then json.dumps, tests[i] being the
\* outcome of the test on rs[i]: the list is built in full, so the test of
\* any record can raise.
Filtered(rs, tests, limit) ==
    IF \E i \in 1..Len(rs) : tests[i] = "raise"
    THEN Raised("AttributeError", "none")
    ELSE Returned(<<JsonText(Slice(
            [n \in 1..Cardinality({i \in 1..Len(rs) : tests[i] = "match"}) |->
                rs[CHOOSE i \in 1..Len(rs) :
                    /\ tests[i] = "match"
                    /\ Cardinality({j \in 1..i : tests[j] = "match"}) = n]],
            limit))>>)

\* sorted(repos, key, reverse=True)[:limit], then json.dumps, keys[i] being
\* the key of rs[i]; comparing keys that are not all of the type ty raises
\* TypeError.
Ranked(rs, keys, ty, limit) ==
    IF Len(rs) > 1 /\ \E i \in 1..Len(rs) : keys[i].ty # ty
    THEN Raised("TypeError", "none")
    ELSE Returned(<<JsonText(Slice(SortedDescending(rs, keys), limit))>>)

\* Lines 165-218: what call_tool does with the records.
Dispatch(nm, args, rs) ==
    CASE nm = "search_stars" ->
            Filtered(rs, [i \in 1..Len(rs) |->
                            SearchTest(rs[i], Lower(TextOfArg(args, "query")))],
                     LimitOf(args))
      [] nm = "get_stars_by_language" ->
            Filtered(rs, [i \in 1..Len(rs) |->
                            LanguageTest(rs[i], TextOfArg(args, "language"))],
                     LimitOf(args))
      [] nm = "get_stars_by_topic" ->
            Filtered(rs, [i \in 1..Len(rs) |->
                            TopicTest(rs[i], Lower(TextOfArg(args, "topic")))],
                     LimitOf(args))
      [] nm = "get_top_stars" ->
            Ranked(rs, [i \in 1..Len(rs) |-> rs[i].stars], "int", LimitOf(args))
      [] nm = "get_recent_stars" ->
            Ranked(rs, [i \in 1..Len(rs) |-> StarredAtKey(rs[i])], "str", LimitOf(args))
      [] OTHER -> Returned(<<PlainText("Unknown tool")>>)

\* Line 163: call_tool is called, and calls fetch_starred_repos first.
CallTool(nm, args) ==
    /\ tpc = "idle"
    /\ tcalls < MaxCalls
    /\ tcalls' = tcalls + 1
    /\ name' = nm
    /\ arguments' = args
    /\ tresult' = NoResult
    /\ tpc' = "fetching"
    /\ ipc' = [ipc EXCEPT !["mcp"] = "called"]
    /\ UNCHANGED <<page, all_repos, requested, lastResp, fetched, escaped>>

\* Lines 163-218: fetch_starred_repos is over. Its exception is not caught
\* in call_tool; nor is one raised by the operation.
CallToolRespond ==
    /\ tpc = "fetching"
    /\ ipc["mcp"] \in {"done", "failed"}
    /\ tresult' = IF fetched["mcp"].kind = "raised" THEN fetched["mcp"]
                  ELSE Dispatch(name, arguments, fetched["mcp"].value)
    /\ escaped' = IF tresult'.kind = "raised" THEN escaped + 1 ELSE escaped
    /\ tpc' = "responded"
    /\ UNCHANGED <<name, arguments, tcalls>>
    /\ UNCHANGED ingestVars

NoArguments == JDict([k \in {} |-> JNull])

\* The call is over: its locals are gone, the session waits for a request.
CallToolEnd ==
    /\ tpc = "responded"
    /\ tpc' = "idle"
    /\ name' = "none"
    /\ arguments' = NoArguments
    /\ tresult' = NoResult
    /\ ipc' = [ipc EXCEPT !["mcp"] = "idle"]
    /\ page' = [page EXCEPT !["mcp"] = 1]
    /\ all_repos' = [all_repos EXCEPT !["mcp"] = <<>>]
    /\ requested' = [requested EXCEPT !["mcp"] = <<>>]
    /\ lastResp' = [lastResp EXCEPT !["mcp"] = NoResp]
    /\ fetched' = [fetched EXCEPT !["mcp"] = NoResult]
    /\ UNCHANGED <<tcalls, escaped>>

InitToolVars ==
    /\ tpc = "idle"
    /\ name = "none"
    /\ arguments = NoArguments
    /\ tresult = NoResult
    /\ tcalls = 0
    /\ escaped = 0

----------------------------------------------------------------------------
(* SpecIngest: the two ingestors, each called once, against one source *)

InitIngestVars(sources, called) ==
    /\ source \in sources
    /\ ipc = [c \in Ingestors |-> IF c \in called THEN "called" ELSE "idle"]
    /\ page = [c \in Ingestors |-> 1]
    /\ all_repos = [c \in Ingestors |-> <<>>]
    /\ requested = [c \in Ingestors |-> <<>>]
    /\ lastResp = [c \in Ingestors |-> NoResp]
    /\ fetched = [c \in Ingestors |-> NoResult]

InitPublishVars(docs, stores) ==
    /\ doc \in docs
    /\ strict \in stores
    /\ commits = 0
    /\ ppc = [p \in Publishers |-> "idle"]
    /\ content = [p \in Publishers |-> <<>>]
    /\ sha = [p \in Publishers |-> <<>>]
    /\ got = [p \in Publishers |-> NoGet]
    /\ put = [p \in Publishers |-> NoPut]
    /\ readAt = [p \in Publishers |-> 0]
    /\ gets = [p \in Publishers |-> 0]
    /\ puts = [p \in Publishers |-> 0]
    /\ published = [p \in Publishers |-> NoResult]
    /\ pcalls = [p \in Publishers |-> 0]

InitIngest ==
    /\ InitIngestVars(Sources(ShortResponses \cup ErrResponses), Ingestors)
    /\ InitPublishVars({NoDoc}, {TRUE})
    /\ InitMirrorVars
    /\ InitMainVars({NoConfig}, "off")
    /\ InitToolVars

\* What the sync run and the publishers hold.
otherVars == <<publishVars, mirrorVars, mainVars, toolVars>>

SyncFetchEnter == FetchEnter("sync")

McpFetchEnter == FetchEnter("mcp")

NextIngest ==
    \/ SyncFetchEnter /\ UNCHANGED otherVars
    \/ McpFetchEnter /\ UNCHANGED otherVars
    \/ SyncFetchPage /\ UNCHANGED otherVars
    \/ McpFetchPage /\ UNCHANGED otherVars

SpecIngest == InitIngest /\ [][NextIngest]_vars

Terminal(c) == ipc[c] \in {"done", "failed"}

\* The source gives k full pages and then a page of fewer than PerPage
\* entries (none, when the total is a multiple of PerPage).
FullThenShort(k) ==
    /\ \A p \in 1..k : source[p] = FullPage
    /\ source[k + 1].status = "200"
    /\ source[k + 1].size < PerPage

\* C1: against a source of k full pages and then a page of m < 100 entries
\* (m = 0: the final page is empty), an ingestion never issues more than
\* k + 1 page requests, and when it ends it has returned 100k + m records
\* after exactly k + 1 requests. Both ingestors.
C1_PaginationCounts ==
    \A c \in Ingestors : \A k \in 0..(MaxPages - 1) :
        FullThenShort(k) =>
            /\ Len(requested[c]) <= k + 1
            /\ Terminal(c) =>
                /\ fetched[c].kind = "returned"
                /\ Len(fetched[c].value) = PerPage * k + source[k + 1].size
                /\ Len(requested[c]) = k + 1

\* Both ingestions ended on the empty page that follows one full page.
C1_Witness ==
    /\ FullThenShort(1)
    /\ source[2] = EmptyPage
    /\ \A c \in Ingestors :
        /\ ipc[c] = "done"
        /\ Len(requested[c]) = 2
        /\ Len(fetched[c].value) = PerPage

\* The records of a page of the source, as ingestor c normalizes them.
NormPage(c, p) ==
    LET body == PageEntries(p, source[p])
    IN [i \in 1..Len(body) |->
            IF c = "sync" THEN SyncNormalize(body[i]) ELSE McpNormalize(body[i])]

\* The records of the first n requested pages, page after page.
RECURSIVE PagesConcat(_, _)
PagesConcat(c, n) ==
    IF n = 0 THEN <<>> ELSE PagesConcat(c, n - 1) \o NormPage(c, requested[c][n])

\* C2: the page requests of an ingestion are for pages 1, 2, 3, ... in this
\* order, none skipped and none twice; the records are the pages' entries
\* in that order; an ingestion that has returned got a short or an empty
\* page last, and after a full page the ingestion is still running.
C2_PageOrder ==
    \A c \in Ingestors :
        /\ requested[c] = [i \in 1..Len(requested[c]) |-> i]
        /\ all_repos[c] = PagesConcat(c, Len(requested[c]))
        /\ ipc[c] = "done" =>
            /\ lastResp[c].status = "200"
            /\ lastResp[c].size < PerPage
            /\ fetched[c] = Returned(all_repos[c])
        /\ lastResp[c] = FullPage => ipc[c] = "fetch"

\* An ingestion returned after a full page and a short one that is not empty.
C2_Witness ==
    \E c \in Ingestors :
        /\ ipc[c] = "done"
        /\ requested[c] = <<1, 2>>
        /\ lastResp[c].size > 0
        /\ Len(all_repos[c]) = PerPage + lastResp[c].size

C3_State ==
    \A c \in Ingestors :
        /\ lastResp[c].status \notin {"200", "none"} => ipc[c] = "failed"
        /\ ipc[c] = "failed" =>
            /\ lastResp[c].status # "200"
            /\ fetched[c].kind = "raised"
            /\ Cardinality({i \in 1..Len(requested[c]) :
                               requested[c][i] = requested[c][Len(requested[c])]}) = 1

C3_Step ==
    \A c \in Ingestors :
        ipc[c] = "failed" =>
            /\ ipc'[c] = "failed"
            /\ requested'[c] = requested[c]
            /\ fetched'[c] = fetched[c]

\* C3: a page request answered with a non-success status fails the
\* ingestion at once: the caller gets an error and no record set (neither
\* the records of the earlier pages nor an empty set), the failed page was
\* requested once, and a failed ingestion issues no further request.
C3_FailsAsAWhole == []C3_State /\ [][C3_Step]_vars

\* An ingestion failed on the second page, holding the records of the first.
C3_Witness ==
    \E c \in Ingestors :
        /\ ipc[c] = "failed"
        /\ requested[c] = <<1, 2>>
        /\ Len(all_repos[c]) = PerPage
        /\ fetched[c].kind = "raised"

\* The fields the records of the two ingestors have in common.
SharedFields == {"name", "description", "url", "language", "topics", "stars", "starred_at"}

Shared(r) == [f \in SharedFields |-> r[f]]

SharedAll(rs) == [i \in 1..Len(rs) |-> Shared(rs[i])]

\* What an ingestion gave, the records cut down to the shared fields.
SharedResult(result) ==
    IF result.kind = "returned" THEN Returned(SharedAll(result.value)) ELSE result

\* C18: against one source the two ingestors request the same pages in the
\* same order; after the same number of requests they are both running,
\* both returned or both failed, with the same records so far in the shared
\* fields; at the end they have returned record sequences equal in the
\* shared fields, or raised the same error on the same request.
C18_IngestorsEquivalent ==
    /\ \A i \in 1..Len(requested["sync"]) :
        i <= Len(requested["mcp"]) => requested["sync"][i] = requested["mcp"][i]
    /\ Len(requested["sync"]) = Len(requested["mcp"]) =>
        /\ Terminal("sync") <=> Terminal("mcp")
        /\ ipc["sync"] = "failed" <=> ipc["mcp"] = "failed"
        /\ SharedAll(all_repos["sync"]) = SharedAll(all_repos["mcp"])
    /\ (Terminal("sync") /\ Terminal("mcp")) =>
        /\ requested["sync"] = requested["mcp"]
        /\ SharedResult(fetched["sync"]) = SharedResult(fetched["mcp"])

\* Both ingestors returned after a full page and a short one: the sync
\* script left its page number at 3, the tool server at 2.
C18_Witness ==
    /\ ipc["sync"] = "done"
    /\ ipc["mcp"] = "done"
    /\ requested["sync"] = <<1, 2>>
    /\ requested["mcp"] = <<1, 2>>
    /\ Len(fetched["mcp"].value) > PerPage
    /\ page["sync"] = 3
    /\ page["mcp"] = 2

\* The steps of each ingestor. A call of fetch_starred_repos that can take
\* a step takes it: the loop does nothing but request the next page.
SyncSteps == (SyncFetchEnter \/ SyncFetchPage) /\ UNCHANGED otherVars

McpSteps == (McpFetchEnter \/ McpFetchPage) /\ UNCHANGED otherVars

\* The responses that end a listing: an empty page, the shortest and the
\* longest short page, an error status.
StopResponses ==
    {r \in ShortResponses : r.size \in {0, 1, PerPage - 1}} \cup ErrResponses

InitIngestLive ==
    /\ InitIngestVars(Sources(StopResponses), Ingestors)
    /\ InitPublishVars({NoDoc}, {TRUE})
    /\ InitMirrorVars
    /\ InitMainVars({NoConfig}, "off")
    /\ InitToolVars

SpecIngestLive ==
    InitIngestLive /\ [][NextIngest]_vars /\ WF_vars(SyncSteps) /\ WF_vars(McpSteps)

\* Within the pages the model follows, the source gives a response that is
\* not a full page: a short page, an empty page or an error status.
SourceStops == \E p \in 1..MaxPages : source[p] # FullPage

\* C19: against a source that gives a short page, an empty page or an error
\* status after finitely many pages, each ingestion ends, returning or
\* raising. The loop has no bound of its own: against a source of full pages
\* only, an ingestion requests page after page (as far as the model follows
\* it) and has not ended.
C19_Terminates ==
    <>[](\A c \in Ingestors :
            IF SourceStops THEN Terminal(c)
            ELSE ~Terminal(c) /\ Len(requested[c]) = MaxPages)

\* Both ingestions have ended on a source whose second page is short and
\* not empty.
C19_Witness ==
    /\ source[1] = FullPage
    /\ source[2].status = "200"
    /\ source[2].size \in 1..(PerPage - 1)
    /\ \A c \in Ingestors : ipc[c] = "done" /\ Len(requested[c]) = 2

----------------------------------------------------------------------------
(* SpecPublish: two publishers against the same path and branch *)

\* The rendered document of the n-th call of publisher p.
TextOf(p, n) == <<p, n>>

\* A sync run reaches its publish step: commit_to_github is called.
PublishCall(p) ==
    /\ ppc[p] \in {"idle", "done"}
    /\ pcalls[p] < MaxPublishes
    /\ content' = [content EXCEPT ![p] = TextOf(p, pcalls[p] + 1)]
    /\ PublishEnter(p)
    /\ UNCHANGED <<doc, strict, commits, readAt>>

InitPublish ==
    /\ InitIngestVars({SourceOf(0, EmptyPage)}, {})
    /\ InitPublishVars({NoDoc, OldDoc}, BOOLEAN)
    /\ InitMirrorVars
    /\ InitMainVars({NoConfig}, "off")
    /\ InitToolVars

NextPublish ==
    \/ \E p \in Publishers : PublishCall(p) /\ UNCHANGED <<ingestVars, mirrorVars, mainVars, toolVars>>
    \/ \E p \in Publishers : PublishRead(p) /\ UNCHANGED <<ingestVars, mirrorVars, mainVars, toolVars>>
    \/ \E p \in Publishers : PublishWrite(p) /\ UNCHANGED <<ingestVars, mirrorVars, mainVars, toolVars>>

SpecPublish == InitPublish /\ [][NextPublish]_vars

\* The PUT of p carried a token that was not the stored one.
StaleToken(p) ==
    /\ put[p].sent
    /\ put[p].sha # <<>>
    /\ put[p].before.sha # <<>>
    /\ put[p].sha # put[p].before.sha

\* The store itself answered the PUT of p.
Answered(p) == put[p].sent /\ put[p].status \notin {"500", "exception"}

\* C4: a write conditioned on a token T0 while the store holds T1 # T0
\* leaves the stored document and its token as they were, and
\* commit_to_github raises; when the store answered, what it raises is the
\* HTTPError of the conflict status.
C4_StaleTokenConflict ==
    \A p \in Publishers :
        StaleToken(p) =>
            /\ put[p].after = put[p].before
            /\ published[p].kind = "raised"
            /\ Answered(p) => published[p] = Raised("HTTPError", "409")

\* A publisher wrote with the token of a document that the other publisher
\* had replaced meanwhile, and got the conflict.
C4_Witness ==
    \E p \in Publishers :
        /\ StaleToken(p)
        /\ put[p].status = "409"
        /\ put[p].before.by \in Publishers \ {p}
        /\ doc = put[p].before

\* The store accepted a write of another publisher between the GET and the
\* PUT of p.
WroteSinceRead(p) == put[p].sent /\ put[p].at > readAt[p]

C6_TokenFromRead ==
    \A p \in Publishers :
        put[p].sent =>
            /\ put[p].sha = <<>> => got[p].status = "404"
            /\ got[p].status = "200" => put[p].sha = got[p].sha

\* The requests of the current call of each publisher: at most one GET and
\* one PUT, the PUT after the GET; a call that is over has made both.
C16_State ==
    \A p \in Publishers :
        /\ gets[p] <= 1
        /\ puts[p] <= 1
        /\ puts[p] = 1 => gets[p] = 1 /\ ppc[p] = "done"
        /\ ppc[p] = "done" => gets[p] = 1 /\ puts[p] = 1

\* A call that has made its PUT makes no further request: the counts of a
\* publisher change only when it is called again.
C16_Step ==
    \A p \in Publishers :
        (puts[p] = 1 /\ pcalls'[p] = pcalls[p]) =>
            /\ gets'[p] = gets[p]
            /\ puts'[p] = puts[p]
            /\ put'[p] = put[p]

\* C16: one call of commit_to_github makes exactly one read request and
\* then at most one write request, whatever the answers: a refused or
\* failed write is followed by no second read and no second write in the
\* same call.
C16_NoRetry == []C16_State /\ [][C16_Step]_vars

\* A call whose write was refused with a conflict is over after one GET and
\* one PUT.
C16_Witness ==
    \E p \in Publishers :
        /\ ppc[p] = "done"
        /\ put[p].status = "409"
        /\ published[p].kind = "raised"
        /\ gets[p] = 1
        /\ puts[p] = 1

----------------------------------------------------------------------------
(* SpecSync: one run of the sync script *)

\* The last page of a sync run's listing: a few entries, with or without
\* null languages, or an error.
SyncFinals ==
    {[status |-> "200", size |-> n, nulls |-> b] : n \in 0..MaxRecords, b \in BOOLEAN}
        \cup ErrResponses

\* The listings of a sync run: of one page, or of one full page and a second
\* page; a run with a sink key is followed for the listings of one page.
InitSync ==
    /\ \/ /\ InitIngestVars({SourceOf(0, fin) : fin \in SyncFinals}, {})
          /\ InitMainVars(Configs, "start")
       \/ /\ InitIngestVars({SourceOf(1, fin) : fin \in SyncFinals}, {})
          /\ InitMainVars({c \in Configs : ~c.api_key}, "start")
    /\ InitPublishVars({NoDoc, OldDoc}, BOOLEAN)
    /\ InitMirrorVars
    /\ InitToolVars

NextSync ==
    \/ MainStart
    \/ SyncFetchEnter /\ UNCHANGED otherVars
    \/ SyncFetchPage /\ UNCHANGED otherVars
    \/ MainFetched
    \/ MainRender
    \/ MainSave
    \/ MainMirror
    \/ MainMirrorSubmit
    \/ MainMirrored
    \/ MainPublish
    \/ PublishRead("p1") /\ UNCHANGED <<ingestVars, mirrorVars, mainVars, toolVars>>
    \/ PublishWrite("p1") /\ UNCHANGED <<ingestVars, mirrorVars, mainVars, toolVars>>
    \/ MainFinish

SpecSync == InitSync /\ [][NextSync]_vars

\* main has called commit_to_github.
ReachedPublish == ppc["p1"] # "idle"

\* C7: from the moment commit_to_github is called, the rendered document is
\* in the local file (so it was saved before any request of the publish
\* and whatever the publish gives); a publish that raised never ends the
\* run with an error: the run prints the failure and returns normally.
C7_PublishBestEffort ==
    /\ ReachedPublish =>
        /\ localFile # Nothing
        /\ localFile = markdown_content
        /\ content["p1"] = localFile
    /\ published["p1"].kind = "raised" =>
        /\ mpc \in {"publishing", "complete"}
        /\ mpc = "complete" =>
            /\ mainResult.kind = "returned"
            /\ \E i \in 1..Len(out) : out[i] = "commit-failed"
            /\ out[Len(out)] = "complete"
    /\ (mpc = "publishing" /\ ppc["p1"] = "done") => ENABLED MainFinish

\* A run whose PUT was refused ended normally, the document saved.
C7_Witness ==
    /\ mpc = "complete"
    /\ published["p1"].kind = "raised"
    /\ put["p1"].sent
    /\ localFile # Nothing
    /\ mainResult.kind = "returned"

\* C8: sync_repos submits the records one by one in their order, each once,
\* whatever the sink answered for the earlier ones; a refused or failed
\* submission raises nothing; the count returned is the number of
\* submissions the sink accepted, and all N records were submitted by then.
C8_MirrorIsolatesFailures ==
    /\ mirrored # NotCalled =>
        /\ submitted = [i \in 1..Len(submitted) |-> Payload(repos[i])]
        /\ success_count = stored
        /\ mirrored.kind # "raised"
    /\ mirrored = Running =>
        /\ Len(submitted) = mi - 1
        /\ mpc = "mirroring"
        /\ mi <= Len(repos) => ENABLED MainMirrorSubmit
    /\ mirrored.kind = "returned" =>
        /\ Len(submitted) = Len(repos)
        /\ mirrored.value = stored

\* sync_repos returned 1 after three submissions, two of which failed.
C8_Witness ==
    /\ mirrored = Returned(1)
    /\ Len(submitted) = 3
    /\ stored = 1
    /\ Len(repos) = 3

\* The ingestion of the run has returned or raised.
Ingested == ipc["sync"] \in {"done", "failed"}

\* What the steps of the run work on: the pages were requested once each;
\* the list that is rendered holds the records the ingestion returned (in
\* the order of the sort); the document is the rendering of that list, the
\* file and the publish have that document, the mirror has the payloads of
\* that list.
C17_State ==
    /\ requested["sync"] = [i \in 1..Len(requested["sync"]) |-> i]
    /\ mpc \in {"save", "mirror", "mirroring", "publish", "publishing", "complete"} =>
        /\ fetched["sync"].kind = "returned"
        /\ Len(repos) = Len(fetched["sync"].value)
        /\ {repos[i] : i \in 1..Len(repos)} =
                {fetched["sync"].value[i] : i \in 1..Len(repos)}
        /\ markdown_content = <<Render(repos)>>
    /\ localFile # Nothing => localFile = markdown_content
    /\ mirrored # NotCalled =>
        submitted = [i \in 1..Len(submitted) |-> Payload(repos[i])]
    /\ ReachedPublish => content["p1"] = markdown_content

\* Once the ingestion is over, the run requests no page and its record set
\* stays the one returned.
C17_Step ==
    Ingested =>
        /\ ipc'["sync"] = ipc["sync"]
        /\ requested'["sync"] = requested["sync"]
        /\ fetched'["sync"] = fetched["sync"]

\* C17: a sync run makes one ingestion, and the records of that ingestion
\* are the ones rendered, saved, mirrored and published; no step of the run
\* ingests again, whatever the mirror and the publish gave.
C17_SingleIngestion == []C17_State /\ [][C17_Step]_vars

\* A run is complete after three records, a mirror with failures and a
\* failed publish: one page was requested, once.
C17_Witness ==
    /\ mpc = "complete"
    /\ requested["sync"] = <<1>>
    /\ Len(repos) = 3
    /\ repos # fetched["sync"].value
    /\ mirrored = Returned(1)
    /\ published["p1"].kind = "raised"

\* The ingestion of the run returned no record, and main has gone on from it.
FetchedNothing ==
    /\ fetched["sync"] = Returned(<<>>)
    /\ mpc \notin {"start", "fetch"}

\* C20: when the ingestion of a run returns no record, the run returns with
\* nothing more done: no document rendered, no file written, nothing
\* submitted to the sink, no request to the document store.
C20_EmptyRunNoEffect ==
    FetchedNothing =>
        /\ mpc = "returned"
        /\ mainResult = Returned(<<>>)
        /\ out = <<"no-stars">>
        /\ markdown_content = Nothing
        /\ localFile = Nothing
        /\ mirrored = NotCalled
        /\ submitted = <<>>
        /\ \A p \in Publishers : got[p] = NoGet /\ put[p] = NoPut /\ pcalls[p] = 0

\* A run with a sink key has returned after an empty first page.
C20_Witness ==
    /\ FetchedNothing
    /\ mpc = "returned"
    /\ requested["sync"] = <<1>>
    /\ config.api_key
    /\ doc = OldDoc

----------------------------------------------------------------------------
(* SpecTool: a session of the tool server *)

\* The arguments of a call: a text under the key of the operation, and a
\* limit or none.
ArgTexts == {<<>>, <<"c">>, <<"2">>, <<"A", "p">>}

ArgKey(nm) ==
    CASE nm = "search_stars" -> "query"
      [] nm = "get_stars_by_language" -> "language"
      [] nm = "get_stars_by_topic" -> "topic"
      [] OTHER -> "none"

\* The limits of a call: none given, or an integer (the schema of the tools
\* sets no minimum).
ArgLimits == {JNull} \cup {JInt(l) : l \in -1..2}

ArgumentsOf(nm) ==
    {JDict([k \in (IF ArgKey(nm) = "none" THEN {} ELSE {ArgKey(nm)})
                    \cup (IF l = JNull THEN {} ELSE {"limit"}) |->
                IF k = "limit" THEN l ELSE JStr(t)]) :
        t \in (IF ArgKey(nm) = "none" THEN {<<>>} ELSE ArgTexts), l \in ArgLimits}

\* The listing when a call is made: of one page, or failing after a full page.
ToolSources ==
    {SourceOf(0, fin) : fin \in SyncFinals} \cup {SourceOf(1, fin) : fin \in ErrResponses}

\* Lines 22-24: the settings the tool server reads from its environment when
\* the module is loaded; none is checked. The sink key is read and not used.
ToolConfigs == {c \in Configs : ~c.api_key}

InitTool ==
    /\ InitIngestVars(ToolSources, {})
    /\ InitPublishVars({NoDoc}, {TRUE})
    /\ InitMirrorVars
    /\ InitMainVars(ToolConfigs, "off")
    /\ InitToolVars

\* The remote listing changes between two calls.
SourceChanges ==
    /\ tpc = "idle"
    /\ source' \in ToolSources
    /\ UNCHANGED <<ipc, page, all_repos, requested, lastResp, fetched>>
    /\ UNCHANGED <<publishVars, mirrorVars, mainVars, toolVars>>

NextTool ==
    \/ \E nm \in ToolNames \cup {"bogus"} : \E args \in ArgumentsOf(nm) :
          CallTool(nm, args) /\ UNCHANGED <<source, publishVars, mirrorVars, mainVars>>
    \/ McpFetchEnter /\ UNCHANGED otherVars
    \/ McpFetchPage /\ UNCHANGED otherVars
    \/ CallToolRespond /\ UNCHANGED <<publishVars, mirrorVars, mainVars>>
    \/ CallToolEnd /\ UNCHANGED <<source, publishVars, mirrorVars, mainVars>>
    \/ SourceChanges

SpecTool == InitTool /\ [][NextTool]_vars

\* C9: no failure during a tool call leaves call_tool: whatever call_tool
\* gives its caller is a textual result, never an exception.
C9_NoFailureEscapes ==
    /\ tresult.kind # "raised"
    /\ escaped = 0

\* C10: for a name that is none of the five tool names, call_tool returns
\* the single plain text "Unknown tool", whatever the remote listing does.
C10_UnknownOperation ==
    (tpc = "responded" /\ name \notin ToolNames) =>
        tresult = Returned(<<PlainText("Unknown tool")>>)

\* The required settings are there.
Configured == config.username /\ config.token

\* No request has gone to the listing source, the document store or the sink.
NoNetwork ==
    /\ \A c \in Ingestors : requested[c] = <<>>
    /\ \A p \in Publishers : got[p] = NoGet /\ put[p] = NoPut /\ pcalls[p] = 0
    /\ submitted = <<>>

\* C11: with the username or the token missing, the program fails with a
\* configuration error and no network request is issued: no listing page is
\* requested, no document is read or written, nothing is submitted to the
\* sink; in the sync script and in the tool server alike.
C11_ConfigBeforeNetwork ==
    ~Configured =>
        /\ NoNetwork
        /\ mpc \notin {"off", "start"} =>
            mpc = "crashed" /\ mainResult = Raised("ValueError", "none")
        /\ tpc = "responded" => tresult = Raised("ValueError", "none")

\* A Star Record as the data model has it: name, description, url, language
\* and starred_at are strings, topics is a sequence of strings, stars an
\* integer.
IsStarRecord(r) ==
    /\ \A f \in {"name", "description", "url", "language", "starred_at"} : r[f].ty = "str"
    /\ r.topics.ty = "list"
    /\ \A i \in 1..Len(r.topics.items) : r.topics.items[i].ty = "str"
    /\ r.stars.ty = "int"

\* The record set call_tool worked on is one of Star Records.
OnStarRecords ==
    /\ tpc = "responded"
    /\ fetched["mcp"].kind = "returned"
    /\ \A i \in 1..Len(fetched["mcp"].value) : IsStarRecord(fetched["mcp"].value[i])

\* The predicates of the three filter operations, on a Star Record.
MatchesSearch(r, query) ==
    \/ Contains(Lower(query), Lower(r.name.s))
    \/ Contains(Lower(query), Lower(r.description.s))
    \/ Contains(Lower(query), Lower(r.language.s))
    \/ \E i \in 1..Len(r.topics.items) : Contains(Lower(query), Lower(r.topics.items[i].s))

MatchesLanguage(r, language) == Lower(r.language.s) = Lower(language)

MatchesTopic(r, topic) ==
    \E i \in 1..Len(r.topics.items) : Contains(Lower(topic), Lower(r.topics.items[i].s))

\* The positions in rs of the records that match the predicate of tool nm.
Matching(nm, args, rs) ==
    {i \in 1..Len(rs) :
        CASE nm = "search_stars" -> MatchesSearch(rs[i], TextOfArg(args, "query"))
          [] nm = "get_stars_by_language" ->
                MatchesLanguage(rs[i], TextOfArg(args, "language"))
          [] nm = "get_stars_by_topic" -> MatchesTopic(rs[i], TextOfArg(args, "topic"))
          [] OTHER -> FALSE}

\* The first `limit` records of rs at the positions idx, from position i on,
\* in the order of rs.
RECURSIVE FirstAt(_, _, _, _)
FirstAt(rs, idx, i, limit) ==
    IF i > Len(rs) \/ limit = 0 THEN <<>>
    ELSE IF i \in idx THEN <<rs[i]>> \o FirstAt(rs, idx, i + 1, limit - 1)
    ELSE FirstAt(rs, idx, i + 1, limit)

FilterTools == {"search_stars", "get_stars_by_language", "get_stars_by_topic"}

\* C12: on Star Records and with a limit >= 0, search_stars,
\* get_stars_by_language and get_stars_by_topic return the first `limit` of
\* the records that match their predicate, in ingestion order: never more
\* than `limit` records, never reordered.
C12_FilterFirstMatches ==
    (OnStarRecords /\ name \in FilterTools /\ LimitOf(arguments) >= 0) =>
        /\ tresult.kind = "returned"
        /\ Len(tresult.value) = 1
        /\ tresult.value[1] =
            JsonText(FirstAt(fetched["mcp"].value,
                             Matching(name, arguments, fetched["mcp"].value),
                             1, LimitOf(arguments)))
        /\ Len(tresult.value[1].value) <= LimitOf(arguments)

\* get_stars_by_language with limit 1 on three Star Records, two of which
\* match: the first of the two is returned.
C12_Witness ==
    /\ OnStarRecords
    /\ name = "get_stars_by_language"
    /\ LimitOf(arguments) = 1
    /\ Len(fetched["mcp"].value) = 3
    /\ Cardinality(Matching(name, arguments, fetched["mcp"].value)) = 2
    /\ tresult = Returned(<<JsonText(<<fetched["mcp"].value[1]>>)>>)

\* idx lists the positions 1..Len(keys), each once, by key descending, the
\* positions of equal key in ascending order.
IsStableDescending(idx, keys) ==
    /\ \A a, b \in DOMAIN idx : a # b => idx[a] # idx[b]
    /\ \A k \in 1..(Len(keys) - 1) :
        /\ ~KeyLess(keys[idx[k]], keys[idx[k + 1]])
        /\ keys[idx[k]] = keys[idx[k + 1]] => idx[k] < idx[k + 1]

\* top is the first `limit` records (none for a limit below 1) of rs put in
\* the stable descending order of keys.
IsTopOf(top, rs, keys, limit) ==
    \E idx \in [1..Len(rs) -> 1..Len(rs)] :
        /\ IsStableDescending(idx, keys)
        /\ top = [k \in 1..(IF limit < Len(rs) THEN limit ELSE Len(rs)) |-> rs[idx[k]]]

\* The stars of the records call_tool worked on.
StarsOf(rs) == [i \in 1..Len(rs) |-> rs[i].stars]

----------------------------------------------------------------------------
(* SpecRecency: a sync run, and after it a session of get_recent_stars calls
   of the tool server, on one listing *)

\* Listings of one page, of up to MaxListing records with and without a
\* starred_at.
RecencySources ==
    {SourceOf(0, [status |-> "200", size |-> n, nulls |-> FALSE]) : n \in 0..MaxListing}

InitRecency ==
    /\ InitIngestVars(RecencySources, {})
    /\ InitPublishVars({NoDoc}, {TRUE})
    /\ InitMirrorVars
    /\ InitMainVars({c \in Configs : c.username /\ c.token /\ ~c.api_key}, "start")
    /\ InitToolVars

\* main has returned or ended with an exception.
MainOver == mpc \in {"returned", "complete", "crashed"}

NextRecency ==
    \/ MainStart
    \/ SyncFetchEnter /\ UNCHANGED otherVars
    \/ SyncFetchPage /\ UNCHANGED otherVars
    \/ MainFetched
    \/ MainRender
    \/ MainSave
    \/ MainMirror
    \/ MainPublish
    \/ PublishRead("p1") /\ UNCHANGED <<ingestVars, mirrorVars, mainVars, toolVars>>
    \/ PublishWrite("p1") /\ UNCHANGED <<ingestVars, mirrorVars, mainVars, toolVars>>
    \/ MainFinish
    \/ /\ MainOver
       /\ \E args \in ArgumentsOf("get_recent_stars") :
             CallTool("get_recent_stars", args)
                 /\ UNCHANGED <<source, publishVars, mirrorVars, mainVars>>
    \/ McpFetchEnter /\ UNCHANGED otherVars
    \/ McpFetchPage /\ UNCHANGED otherVars
    \/ CallToolRespond /\ UNCHANGED <<publishVars, mirrorVars, mainVars>>
    \/ CallToolEnd /\ UNCHANGED <<source, publishVars, mirrorVars, mainVars>>

SpecRecency == InitRecency /\ [][NextRecency]_vars

\* The records of rs are in descending order of starred_at as strings, and
\* no record without a starred_at comes before one with a starred_at.
RecencyOrdered(rs) ==
    \A a \in 1..(Len(rs) - 1) :
        /\ ~StrLess(rs[a].starred_at.s, rs[a + 1].starred_at.s)
        /\ rs[a].starred_at.s = <<>> => rs[a + 1].starred_at.s = <<>>

\* The records of a sequence, as a set.
RecordsOf(rs) == {rs[i] : i \in 1..Len(rs)}

\* part holds records of rs, none twice.
TakenFrom(part, rs) ==
    /\ RecordsOf(part) \subseteq RecordsOf(rs)
    /\ Cardinality(RecordsOf(part)) = Len(part)

\* generate_markdown has sorted the list of main.
Rendered == mpc \in {"save", "mirror", "mirroring", "publish", "publishing", "complete"}

\* get_recent_stars has answered on records whose starred_at are strings.
RecentAnswered ==
    /\ tpc = "responded"
    /\ name = "get_recent_stars"
    /\ fetched["mcp"].kind = "returned"
    /\ KeysComparable(fetched["mcp"].value)

\* C14: the sort of generate_markdown leaves the records of the ingestion,
\* all of them, in descending order of starred_at, those with the empty
\* starred_at after all the others; get_recent_stars returns records of the
\* ingestion in that order, min(limit, N) of them for a limit >= 0, and no
\* record left out is more recent than one returned.
C14_RecencyOrder ==
    /\ Rendered =>
        /\ Len(repos) = Len(fetched["sync"].value)
        /\ TakenFrom(repos, fetched["sync"].value)
        /\ RecencyOrdered(repos)
    /\ RecentAnswered =>
        /\ tresult.kind = "returned"
        /\ Len(tresult.value) = 1
        /\ TakenFrom(tresult.value[1].value, fetched["mcp"].value)
        /\ RecencyOrdered(tresult.value[1].value)
        /\ \A r \in RecordsOf(fetched["mcp"].value) \ RecordsOf(tresult.value[1].value) :
            \/ tresult.value[1].value = <<>>
            \/ ~StrLess(tresult.value[1].value[Len(tresult.value[1].value)].starred_at.s,
                        r.starred_at.s)
        /\ LimitOf(arguments) >= 0 =>
            Len(tresult.value[1].value) =
                IF LimitOf(arguments) < Len(fetched["mcp"].value)
                THEN LimitOf(arguments) ELSE Len(fetched["mcp"].value)

\* Seven records came in, the first and the sixth without a starred_at, the
\* third with the greatest: the sorted list of main and the answer of
\* get_recent_stars start with the third and end with the first and the sixth.
C14_Witness ==
    /\ Rendered
    /\ RecentAnswered
    /\ Len(fetched["mcp"].value) = 7
    /\ fetched["mcp"].value[1].starred_at.s = <<>>
    /\ fetched["mcp"].value[6].starred_at.s = <<>>
    /\ Len(tresult.value[1].value) = 7
    /\ tresult.value[1].value[1] = fetched["mcp"].value[3]
    /\ tresult.value[1].value[6] = fetched["mcp"].value[1]
    /\ tresult.value[1].value[7] = fetched["mcp"].value[6]
    /\ repos[1] = fetched["sync"].value[3]
    /\ repos[6] = fetched["sync"].value[1]
    /\ repos[7] = fetched["sync"].value[6]

\* C15: every record the normalizers have made is a Star Record: a field
\* whose raw value is missing or of another type than expected (a null
\* language, a null description) has its default in the record.
C15_NormalizeDefaults ==
    \A c \in Ingestors :
        \A i \in 1..Len(all_repos[c]) : IsStarRecord(all_repos[c][i])

====
